---------------------------- MODULE Spec2Model ----------------------------
(***************************************************************************)
(* Model of the xblive client: the file token cache (FileTokenCache), the  *)
(* token chain resolver (Client.ensureXSTSToken) and the device code flow  *)
(* (Client.Authenticate).                                                  *)
(*                                                                         *)
(* Time is a discrete clock `now`; time.Time values are integers and the   *)
(* zero time.Time is 0, which lies before every reading of the clock.      *)
(* Strings are TLA+ strings; "" is Go's empty string.  Every network call  *)
(* is split in two steps, the request and the provider's response, and the *)
(* clock may advance in between.                                           *)
(***************************************************************************)
EXTENDS Integers, Sequences, FiniteSets, TLC

VARIABLES
    now,      \* the reading of time.Now()
    cache,    \* the FileTokenCache: tokens (c.tokens) and file (tokens.json)
    faults,   \* number of storage faults injected so far
    pc,       \* position of the client's single flow of control
    op,       \* the operation in progress, or the last one when pc = "idle"
    ret,      \* what the last finished operation returned
    calls,    \* the network calls issued by the operation, with their answers
    flow,     \* locals of pollForToken: the device code, deadline and ticker
    search    \* locals of searchGamertags, and the directory requests it sent

vars == <<now, cache, faults, pc, op, ret, calls, flow, search>>

-----------------------------------------------------------------------------
(* Bounds of the model *)

MaxTime == 4        \* the clock runs over 1..MaxTime
MaxLifetime == 2    \* the longest lifetime a provider response declares
MaxFaults == 1      \* storage faults injected in one behaviour
MaxQueries == 2     \* gamertags in one call of searchGamertags
MaxPeople == 2      \* profiles in one answer of the directory

(* time.Time{}: the expiry of a CachedTokens value that was never set *)
ZeroTime == 0

(* Values the provider hands out; "" is an absent JSON field *)
AccessTokens == {"AT1"}
RefreshTokens == {"", "RT1"}
UserTokens == {"UT1"}
XSTSTokens == {"XT1"}
ExpiresIns == {0, MaxLifetime}

(* Absolute expiry instants (NotAfter) a provider response may carry *)
NotAfters == {now + d : d \in ExpiresIns}

-----------------------------------------------------------------------------
(* types.go: CachedTokens, and its zero value &CachedTokens{} *)

EmptyTokens ==
    [AccessToken |-> "", RefreshToken |-> "", AccessTokenExpiry |-> ZeroTime,
     UserToken |-> "", UserTokenExpiry |-> ZeroTime,
     XSTSToken |-> "", XSTSTokenExpiry |-> ZeroTime, UserHash |-> ""]

(* A Go string is a sequence of bytes: BadBytes stands for one that is not *)
(* valid UTF-8 (the single byte 0xFF), ReplacementChar for the string      *)
(* holding U+FFFD                                                          *)
BadBytes == "0xFF"
ReplacementChar == "U+FFFD"

ValidUTF8(s) == s # BadBytes

(* encoding/json writes a string as a JSON string coerced to valid UTF-8:  *)
(* bytes that are not valid UTF-8 become U+FFFD                            *)
ToValidUTF8(s) == IF ValidUTF8(s) THEN s ELSE ReplacementChar

(* a variant of Marshal that leaves out the user hash *)
MarshalNoHash(t) ==
    [access_token |-> ToValidUTF8(t.AccessToken),
     refresh_token |-> ToValidUTF8(t.RefreshToken),
     access_token_expiry |-> t.AccessTokenExpiry,
     user_token |-> ToValidUTF8(t.UserToken),
     user_token_expiry |-> t.UserTokenExpiry,
     xsts_token |-> ToValidUTF8(t.XSTSToken),
     xsts_token_expiry |-> t.XSTSTokenExpiry,
     user_hash |-> ""]

(* json.MarshalIndent of a CachedTokens: the JSON object with one member   *)
(* per field, named by the field's json tag                                *)
Marshal(t) ==
    [access_token |-> ToValidUTF8(t.AccessToken),
     refresh_token |-> ToValidUTF8(t.RefreshToken),
     access_token_expiry |-> t.AccessTokenExpiry,
     user_token |-> ToValidUTF8(t.UserToken),
     user_token_expiry |-> t.UserTokenExpiry,
     xsts_token |-> ToValidUTF8(t.XSTSToken),
     xsts_token_expiry |-> t.XSTSTokenExpiry,
     user_hash |-> ToValidUTF8(t.UserHash)]

(* json.Unmarshal of such an object into a fresh CachedTokens *)
Unmarshal(j) ==
    [AccessToken |-> j.access_token, RefreshToken |-> j.refresh_token,
     AccessTokenExpiry |-> j.access_token_expiry,
     UserToken |-> j.user_token, UserTokenExpiry |-> j.user_token_expiry,
     XSTSToken |-> j.xsts_token, XSTSTokenExpiry |-> j.xsts_token_expiry,
     UserHash |-> j.user_hash]

-----------------------------------------------------------------------------
(* Gamertags.  A string is the sequence of its characters. *)

Tab == "\t"

(* strings.ToLower *)
ToLower(s) ==
    [i \in DOMAIN s |-> CASE s[i] = "A" -> "a" [] s[i] = "B" -> "b"
                          [] OTHER -> s[i]]

(* strings.ReplaceAll(s, old, ""), for a string old of one character *)
ReplaceAll(s, old) ==
    LET keep(c) == c # old IN SelectSeq(s, keep)

(* lines 189 and 192 of searchGamertags: the form in which a query and a   *)
(* result's gamertag are compared                                          *)
Normalized(s) == ReplaceAll(ToLower(s), " ")

(* the gamertags a caller asks for: "A b" and "a<tab>b" *)
Queries == { <<"A", " ", "b">>, <<"a", Tab, "b">> }

(* the gamertags of the directory's profiles, in the order in which it     *)
(* lists them: "ab", "A b", "ac"                                           *)
Directory == << <<"a", "b">>, <<"A", " ", "b">>, <<"a", "c">> >>

-----------------------------------------------------------------------------
(* tokens.json: whether it exists, and the JSON object it holds *)
NoFile == [exists |-> FALSE, data |-> Marshal(EmptyTokens)]

(* load: a missing file, and a file that cannot be read (r), leave the     *)
(* fresh record as it is                                                   *)
load(file, r) ==
    IF ~file.exists \/ r # "ok" THEN EmptyTokens ELSE Unmarshal(file.data)

(* a variant of After that also holds at the instant itself *)
AtOrAfter(t, u) == t >= u

(* time.Time.After *)
After(t, u) == t > u

-----------------------------------------------------------------------------
(* FileTokenCache: the get* methods, on the in-memory record t at time n *)

GetAccessToken(t, n) ==
    IF t.AccessToken = "" THEN [token |-> "", ok |-> FALSE]
    ELSE IF After(n, t.AccessTokenExpiry) THEN [token |-> "", ok |-> FALSE]
    ELSE [token |-> t.AccessToken, ok |-> TRUE]

GetRefreshToken(t) ==
    IF t.RefreshToken = "" THEN [token |-> "", ok |-> FALSE]
    ELSE [token |-> t.RefreshToken, ok |-> TRUE]

(* a variant of GetUserToken that does not look at the expiry *)
GetUserTokenNoExpiry(t, n) ==
    IF t.UserToken = "" THEN [token |-> "", ok |-> FALSE]
    ELSE [token |-> t.UserToken, ok |-> TRUE]

GetUserToken(t, n) ==
    IF t.UserToken = "" THEN [token |-> "", ok |-> FALSE]
    ELSE IF After(n, t.UserTokenExpiry) THEN [token |-> "", ok |-> FALSE]
    ELSE [token |-> t.UserToken, ok |-> TRUE]

(* a variant of GetXSTSToken that takes the token as expired at its expiry *)
GetXSTSTokenStrict(t, n) ==
    IF t.XSTSToken = "" \/ t.UserHash = ""
    THEN [token |-> "", userHash |-> "", ok |-> FALSE]
    ELSE IF n >= t.XSTSTokenExpiry
    THEN [token |-> "", userHash |-> "", ok |-> FALSE]
    ELSE [token |-> t.XSTSToken, userHash |-> t.UserHash, ok |-> TRUE]

GetXSTSToken(t, n) ==
    IF t.XSTSToken = "" \/ t.UserHash = ""
    THEN [token |-> "", userHash |-> "", ok |-> FALSE]
    ELSE IF After(n, t.XSTSTokenExpiry)
    THEN [token |-> "", userHash |-> "", ok |-> FALSE]
    ELSE [token |-> t.XSTSToken, userHash |-> t.UserHash, ok |-> TRUE]

-----------------------------------------------------------------------------
(* FileTokenCache: save and the set* methods and Clear, as functions of    *)
(* the cache c and of what the file system does (w): they give the new     *)
(* cache and the returned error.                                           *)

WriteOutcomes == {"ok", "fail"}

(* save: os.WriteFile rewrites the whole record, or fails *)
save(c, w) ==
    IF w = "ok"
    THEN [tokens |-> c.tokens,
          file |-> [exists |-> TRUE, data |-> Marshal(c.tokens)],
          err |-> "nil"]
    ELSE [tokens |-> c.tokens, file |-> c.file, err |-> "storage"]

SetAccessToken(c, token, notAfter, w) ==
    save([c EXCEPT !.tokens.AccessToken = token,
                   !.tokens.AccessTokenExpiry = notAfter], w)

SetRefreshToken(c, token, w) ==
    save([c EXCEPT !.tokens.RefreshToken = token], w)

SetUserToken(c, token, notAfter, w) ==
    save([c EXCEPT !.tokens.UserToken = token,
                   !.tokens.UserTokenExpiry = notAfter], w)

SetXSTSToken(c, token, userHash, notAfter, w) ==
    save([c EXCEPT !.tokens.XSTSToken = token,
                   !.tokens.UserHash = userHash,
                   !.tokens.XSTSTokenExpiry = notAfter], w)

(* a variant of Clear that removes the file and keeps c.tokens *)
ClearFileOnly(c, w) ==
    IF ~c.file.exists
    THEN [tokens |-> c.tokens, file |-> NoFile, err |-> "nil"]
    ELSE IF w = "ok"
    THEN [tokens |-> c.tokens, file |-> NoFile, err |-> "nil"]
    ELSE [tokens |-> c.tokens, file |-> c.file, err |-> "storage"]

(* Clear: the record is reset first; os.Remove of a missing file is no     *)
(* error, another failure of os.Remove is returned.                        *)
Clear(c, w) ==
    IF ~c.file.exists
    THEN [tokens |-> EmptyTokens, file |-> NoFile, err |-> "nil"]
    ELSE IF w = "ok"
    THEN [tokens |-> EmptyTokens, file |-> NoFile, err |-> "nil"]
    ELSE [tokens |-> EmptyTokens, file |-> c.file, err |-> "storage"]

(* the cache part of a result of save, set* or Clear *)
CacheOf(r) == [tokens |-> r.tokens, file |-> r.file]

(* The file system outcomes that may still be injected *)
Outcomes == IF faults < MaxFaults THEN WriteOutcomes ELSE {"ok"}

(* the fault counter after the outcomes ws of the writes that were issued *)
Count(ws) == faults + Cardinality({i \in DOMAIN ws : ws[i] = "fail"})


-----------------------------------------------------------------------------
(* Results and network calls *)

NoRet == [err |-> "running", token |-> "", userHash |-> "", cause |-> 0]

NoFlow ==
    [Interval |-> 0, ExpiresIn |-> 0, deadline |-> ZeroTime,
     nextTick |-> ZeroTime, canceled |-> FALSE]

(* searchGamertags before it is called: the gamertags asked for, the       *)
(* requests sent to the directory with their answers, and the locals       *)
(* allProfiles and fuzzyOnly (what the call returned, once it has)         *)
NoSearch ==
    [gamertags |-> <<>>, requests |-> <<>>, allProfiles |-> <<>>,
     fuzzyOnly |-> <<>>]

(* A network call of kind k carrying the token arg.  res is "wait" until   *)
(* the provider answers, then "ok" or "err"; a successful answer fills in  *)
(* the fields of the decoded response, the time `at` it was received, and  *)
(* whether the writes that persist it succeeded (saved); a failed poll of  *)
(* the token endpoint fills in the text of tryGetToken's error (Error).    *)
Call(k, arg) ==
    [kind |-> k, arg |-> arg, res |-> "wait", at |-> ZeroTime,
     Token |-> "", NotAfter |-> ZeroTime, DisplayClaims |-> <<>>,
     RefreshToken |-> "", ExpiresIn |-> 0, saved |-> "none", Error |-> <<>>,
     XErr |-> "0", Message |-> ""]

(* the log cs with an error answer to its last call *)
Refused(cs) == [cs EXCEPT ![Len(cs)].res = "err"]

(* the log cs with a TokenResponse as answer to its last call *)
TokenAnswer(cs, token, refresh, expiresIn, s) ==
    [cs EXCEPT ![Len(cs)] =
        [@ EXCEPT !.res = "ok", !.at = now, !.Token = token,
                  !.RefreshToken = refresh, !.ExpiresIn = expiresIn,
                  !.saved = s]]

(* the log cs with an XboxUserTokenResponse or XSTSTokenResponse as answer *)
XboxAnswer(cs, token, notAfter, claims, s) ==
    [cs EXCEPT ![Len(cs)] =
        [@ EXCEPT !.res = "ok", !.at = now, !.Token = token,
                  !.NotAfter = notAfter, !.DisplayClaims = claims,
                  !.saved = s]]

(* XboxErrorResponse.XErr, an int64, written by its hexadecimal digits:    *)
(* the codes formatXboxError knows, one it does not know, and "0" for a    *)
(* body without code                                                       *)
XErrNoAccount == "8015DC0B"
XErrRegion == "8015DC0D"
XErrAdult1 == "8015DC0E"
XErrAdult2 == "8015DC0F"
XErrChild == "8015DC10"
XErrOther == "8015DC0A"

(* the bodies (XErr, Message) of the error responses of the security token *)
(* endpoint, and of the user token endpoint                                *)
XSTSErrors ==
    { [XErr |-> "0", Message |-> ""],
      [XErr |-> XErrNoAccount, Message |-> ""],
      [XErr |-> XErrRegion, Message |-> ""],
      [XErr |-> XErrAdult1, Message |-> ""],
      [XErr |-> XErrAdult2, Message |-> ""],
      [XErr |-> XErrChild, Message |-> "msg"],
      [XErr |-> XErrOther, Message |-> ""],
      [XErr |-> XErrOther, Message |-> "msg"] }

UserTokenErrors ==
    { [XErr |-> "0", Message |-> ""],
      [XErr |-> XErrNoAccount, Message |-> ""] }

(* a variant of formatXboxError that knows one of the two underage codes *)
formatXboxErrorOneAdult(err) ==
    CASE err.XErr = XErrNoAccount -> <<"no Xbox account found">>
      [] err.XErr = XErrRegion ->
            <<"Xbox Live is not available in your country/region">>
      [] err.XErr = XErrAdult1 ->
            <<"the account needs adult verification">>
      [] err.XErr = XErrChild -> <<"the account is a child account">>
      [] OTHER -> IF err.Message # ""
                  THEN <<"Xbox error", err.XErr, err.Message>>
                  ELSE <<"Xbox error code", err.XErr>>

(* formatXboxError: the text of the error, with the values it is built     *)
(* from                                                                    *)
formatXboxError(err) ==
    CASE err.XErr = XErrNoAccount -> <<"no Xbox account found">>
      [] err.XErr = XErrRegion ->
            <<"Xbox Live is not available in your country/region">>
      [] err.XErr \in {XErrAdult1, XErrAdult2} ->
            <<"the account needs adult verification">>
      [] err.XErr = XErrChild -> <<"the account is a child account">>
      [] OTHER -> IF err.Message # ""
                  THEN <<"Xbox error", err.XErr, err.Message>>
                  ELSE <<"Xbox error code", err.XErr>>

(* lines 289-299 of getXSTSToken: the error for a response that is not     *)
(* 200 OK, with body b                                                     *)
getXSTSTokenError(b) ==
    IF b.XErr # "0" THEN formatXboxError(b)
    ELSE <<"XSTS token request failed", b.XErr, b.Message>>

(* lines 247-250 of getXboxUserToken: the same, for the user token *)
getXboxUserTokenError(b) ==
    <<"user token request failed", b.XErr, b.Message>>

(* the log cs with an error response of body b as answer to its last call, *)
(* e being the error the call returns                                      *)
XboxRefused(cs, b, e) ==
    [cs EXCEPT ![Len(cs)] =
        [@ EXCEPT !.res = "err", !.XErr = b.XErr, !.Message = b.Message,
                  !.Error = e]]

(* whether a set* call that returned r persisted its value *)
Saved(r) == IF r.err = "nil" THEN "ok" ELSE "fail"

(* the operation returns (e, t, h); k is the index in calls of the network *)
(* call whose failure is the returned error, 0 when there is none.  Inside *)
(* searchGamertags it is ensureXSTSToken that returns, to line 146 of      *)
(* client.go                                                               *)
Returns(e, t, h, k) ==
    /\ pc' = IF op = "search" /\ pc # "idle" THEN "ensured" ELSE "idle"
    /\ ret' = [err |-> e, token |-> t, userHash |-> h, cause |-> k]

(* XSTSTokenDisplayClaims.Xui: a list of maps from keys to JSON values; a   *)
(* value is modelled by its JSON type and its text                         *)
XuiClaims ==
    { <<>>,
      <<[uhs |-> [type |-> "string", val |-> "UH1"]]>>,
      <<[gtg |-> [type |-> "string", val |-> "UH1"]]>>,
      <<[uhs |-> [type |-> "number", val |-> "UH1"]]>> }

(* extractUserHash: the "uhs" entry of the first claim when it is a        *)
(* string, "" otherwise                                                    *)
extractUserHash(claims) ==
    IF Len(claims) > 0
    THEN IF "uhs" \in DOMAIN claims[1] /\ claims[1]["uhs"].type = "string"
         THEN claims[1]["uhs"].val
         ELSE ""
    ELSE ""

Init ==
    /\ now = 1
    /\ cache = [tokens |-> EmptyTokens, file |-> NoFile]
    /\ faults = 0
    /\ pc = "idle"
    /\ op = "none"
    /\ ret = NoRet
    /\ calls = <<>>
    /\ flow = NoFlow
    /\ search = NoSearch

(* the clock advances, for as long as the process lives *)
Tick ==
    /\ pc # "crashed"
    /\ now < MaxTime
    /\ now' = now + 1
    /\ UNCHANGED <<cache, faults, pc, op, ret, calls, flow>>
    /\ UNCHANGED search

-----------------------------------------------------------------------------
(* Client.ensureXSTSToken *)

(* a variant of Step3 that goes on to the user token exchange when the     *)
(* refresh token is missing                                                *)
Step3Unchecked(cs) ==
    LET a == GetAccessToken(cache.tokens, now)
        r == GetRefreshToken(cache.tokens)
    IN  IF a.ok \/ ~r.ok
        THEN /\ calls' = Append(cs, Call("user", a.token))
             /\ pc' = "userToken"
             /\ ret' = NoRet
        ELSE /\ calls' = Append(cs, Call("refresh", r.token))
             /\ pc' = "refresh"
             /\ ret' = NoRet

(* lines 351-365: use the stored access token, else refresh; cs is the log *)
(* of the calls issued so far                                              *)
Step3(cs) ==
    LET a == GetAccessToken(cache.tokens, now)
        r == GetRefreshToken(cache.tokens)
    IN  IF a.ok
        THEN /\ calls' = Append(cs, Call("user", a.token))
             /\ pc' = "userToken"
             /\ ret' = NoRet
        ELSE IF ~r.ok
        THEN /\ calls' = cs
             /\ Returns("notAuthenticated", "", "", 0)
        ELSE /\ calls' = Append(cs, Call("refresh", r.token))
             /\ pc' = "refresh"
             /\ ret' = NoRet

(* a variant of EnsureXSTSToken that does not try the cached user token *)
EnsureXSTSTokenSkipUser ==
    /\ pc = "idle"
    /\ op' = "ensure"
    /\ LET x == GetXSTSToken(cache.tokens, now)
       IN  IF x.ok
           THEN /\ calls' = <<>>
                /\ Returns("nil", x.token, x.userHash, 0)
           ELSE Step3(<<>>)
    /\ flow' = NoFlow
    /\ UNCHANGED <<now, cache, faults>>
    /\ UNCHANGED search

(* lines 332-362, up to the first network call or the return *)
EnsureXSTSToken ==
    /\ pc \in {"idle", "search"}
    /\ op' = IF pc = "idle" THEN "ensure" ELSE op
    /\ LET x == GetXSTSToken(cache.tokens, now)
           u == GetUserToken(cache.tokens, now)
       IN  IF x.ok
           THEN /\ calls' = <<>>
                /\ Returns("nil", x.token, x.userHash, 0)
           ELSE IF u.ok
           THEN /\ calls' = <<Call("xsts", u.token)>>
                /\ pc' = "xstsCached"
                /\ ret' = NoRet
           ELSE Step3(<<>>)
    /\ flow' = NoFlow
    /\ UNCHANGED <<now, cache, faults>>
    /\ UNCHANGED search

(* a variant of StoreXSTS that persists the token without the user hash *)
StoreXSTSNoHash(token, claims, notAfter, w) ==
    LET userHash == extractUserHash(claims)
        r == SetXSTSToken(cache, token, "", notAfter, w)
    IN  /\ cache' = CacheOf(r)
        /\ faults' = Count(<<w>>)
        /\ calls' = XboxAnswer(calls, token, notAfter, claims, Saved(r))
        /\ IF r.err # "nil"
           THEN Returns(r.err, "", "", 0)
           ELSE Returns("nil", token, userHash, 0)

(* lines 343-347 and 380-385: the security token of an accepted exchange   *)
(* is persisted and returned                                               *)
StoreXSTS(token, claims, notAfter, w) ==
    LET userHash == extractUserHash(claims)
        r == SetXSTSToken(cache, token, userHash, notAfter, w)
    IN  /\ cache' = CacheOf(r)
        /\ faults' = Count(<<w>>)
        /\ calls' = XboxAnswer(calls, token, notAfter, claims, Saved(r))
        /\ IF r.err # "nil"
           THEN Returns(r.err, "", "", 0)
           ELSE Returns("nil", token, userHash, 0)

(* a variant of XSTSCachedResponse that returns the error of the exchange *)
XSTSCachedResponseFailFast ==
    /\ pc = "xstsCached"
    /\ \/ \E token \in XSTSTokens, claims \in XuiClaims, notAfter \in NotAfters,
             w \in Outcomes :
            StoreXSTS(token, claims, notAfter, w)
       \/ /\ calls' = Refused(calls)
          /\ Returns("xsts", "", "", Len(calls))
          /\ UNCHANGED <<cache, faults>>
    /\ UNCHANGED <<now, op, flow>>
    /\ UNCHANGED search

(* a variant of XSTSCachedResponse that tries a refused exchange again *)
XSTSCachedResponseRetry ==
    /\ pc = "xstsCached"
    /\ \/ \E token \in XSTSTokens, claims \in XuiClaims, notAfter \in NotAfters,
             w \in Outcomes :
            StoreXSTS(token, claims, notAfter, w)
       \/ /\ calls' = Append(Refused(calls), Call("xsts", calls[Len(calls)].arg))
          /\ Len(calls) < 2
          /\ pc' = pc
          /\ ret' = ret
          /\ UNCHANGED <<cache, faults>>
    /\ UNCHANGED <<now, op, flow>>
    /\ UNCHANGED search

(* the provider answers the exchange of the cached user token (line 341):  *)
(* on success lines 343-347, on failure the fall through to line 351       *)
XSTSCachedResponse ==
    /\ pc = "xstsCached"
    /\ \/ \E token \in XSTSTokens, claims \in XuiClaims, notAfter \in NotAfters,
             w \in Outcomes :
            StoreXSTS(token, claims, notAfter, w)
       \/ /\ Step3(Refused(calls))
          /\ UNCHANGED <<cache, faults>>
    /\ UNCHANGED <<now, op, flow>>
    /\ UNCHANGED search

(* a variant of CacheTokens that caches the refresh token only *)
CacheTokensRefreshOnly(c, token, refresh, notAfter, always, w1, w2) ==
    LET r2 == SetRefreshToken(c, refresh, w2)
    IN  IF always \/ refresh # "" THEN r2 @@ [ws |-> <<w2>>]
        ELSE [tokens |-> c.tokens, file |-> c.file, err |-> "nil", ws |-> <<>>]

(* lines 203-214 of refreshAccessToken and lines 52-61 of                   *)
(* authenticateDeviceCode: the tokens of a TokenResponse are cached; the   *)
(* refresh token is written when always holds or when it is not empty.     *)
(* Gives the new cache, the error and the writes that failed.              *)
CacheTokens(c, token, refresh, notAfter, always, w1, w2) ==
    LET r1 == SetAccessToken(c, token, notAfter, w1)
        r2 == SetRefreshToken(CacheOf(r1), refresh, w2)
    IN  IF r1.err # "nil" THEN r1 @@ [ws |-> <<w1>>]
        ELSE IF always \/ refresh # "" THEN r2 @@ [ws |-> <<w2>>]
        ELSE r1 @@ [ws |-> <<>>]

(* refreshAccessToken, from the provider's answer on (lines 187-214), and  *)
(* lines 355-357 of ensureXSTSToken: every error of refreshAccessToken is  *)
(* returned as "not authenticated"                                         *)
RefreshResponse ==
    /\ pc = "refresh"
    /\ \/ \E token \in AccessTokens, refresh \in RefreshTokens,
             expiresIn \in ExpiresIns, w1 \in Outcomes, w2 \in Outcomes :
            LET r == CacheTokens(cache, token, refresh, now + expiresIn, FALSE,
                                 w1, w2)
            IN  /\ cache' = CacheOf(r)
                /\ faults' = Count(r.ws)
                /\ calls' = TokenAnswer(calls, token, refresh, expiresIn,
                                        Saved(r))
                /\ IF r.err # "nil"
                   THEN Returns("notAuthenticated", "", "", 0)
                   ELSE pc' = "refreshed" /\ ret' = NoRet
       \/ /\ calls' = Refused(calls)
          /\ Returns("notAuthenticated", "", "", Len(calls))
          /\ UNCHANGED <<cache, faults>>
    /\ UNCHANGED <<now, op, flow>>
    /\ UNCHANGED search

(* lines 358-365: the access token is read again after the refresh *)
AfterRefresh ==
    /\ pc = "refreshed"
    /\ LET a == GetAccessToken(cache.tokens, now)
       IN  IF ~a.ok
           THEN /\ calls' = calls
                /\ Returns("noAccessToken", "", "", 0)
           ELSE /\ calls' = Append(calls, Call("user", a.token))
                /\ pc' = "userToken"
                /\ ret' = NoRet
    /\ UNCHANGED <<now, cache, faults, op, flow>>
    /\ UNCHANGED search

(* a variant of UserTokenResponse that does not persist the user token *)
UserTokenResponseNoStore ==
    /\ pc = "userToken"
    /\ \/ \E token \in UserTokens, notAfter \in NotAfters :
            /\ calls' = Append(XboxAnswer(calls, token, notAfter, <<>>, "ok"),
                               Call("xsts", token))
            /\ pc' = "xsts"
            /\ ret' = NoRet
            /\ UNCHANGED <<cache, faults>>
       \/ \E b \in UserTokenErrors :
            /\ calls' = XboxRefused(calls, b, getXboxUserTokenError(b))
            /\ Returns("userToken", "", "", Len(calls))
            /\ UNCHANGED <<cache, faults>>
    /\ UNCHANGED <<now, op, flow>>
    /\ UNCHANGED search

(* the provider answers getXboxUserToken (line 365): lines 366-375 *)
UserTokenResponse ==
    /\ pc = "userToken"
    /\ \/ \E token \in UserTokens, notAfter \in NotAfters, w \in Outcomes :
            LET r == SetUserToken(cache, token, notAfter, w)
                cs == XboxAnswer(calls, token, notAfter, <<>>, Saved(r))
            IN  /\ cache' = CacheOf(r)
                /\ faults' = Count(<<w>>)
                /\ IF r.err # "nil"
                   THEN /\ calls' = cs
                        /\ Returns(r.err, "", "", 0)
                   ELSE /\ calls' = Append(cs, Call("xsts", token))
                        /\ pc' = "xsts"
                        /\ ret' = NoRet
       \/ \E b \in UserTokenErrors :
            /\ calls' = XboxRefused(calls, b, getXboxUserTokenError(b))
            /\ Returns("userToken", "", "", Len(calls))
            /\ UNCHANGED <<cache, faults>>
    /\ UNCHANGED <<now, op, flow>>
    /\ UNCHANGED search

(* the provider answers getXSTSToken (line 375): lines 376-385 *)
XSTSResponse ==
    /\ pc = "xsts"
    /\ \/ \E token \in XSTSTokens, claims \in XuiClaims, notAfter \in NotAfters,
             w \in Outcomes :
            StoreXSTS(token, claims, notAfter, w)
       \/ \E b \in XSTSErrors :
            /\ calls' = XboxRefused(calls, b, getXSTSTokenError(b))
            /\ Returns("xsts", "", "", Len(calls))
            /\ UNCHANGED <<cache, faults>>
    /\ UNCHANGED <<now, op, flow>>
    /\ UNCHANGED search

-----------------------------------------------------------------------------
(* Client.ClearCache: FileTokenCache.Clear *)

ClearCache ==
    /\ pc = "idle"
    /\ \E w \in Outcomes :
         LET r == Clear(cache, w)
         IN  /\ cache' = CacheOf(r)
             /\ faults' = IF r.err = "nil" THEN faults ELSE faults + 1
             /\ w = "fail" => r.err # "nil"
             /\ Returns(r.err, "", "", 0)
    /\ op' = "clear"
    /\ calls' = <<>>
    /\ flow' = NoFlow
    /\ UNCHANGED now
    /\ UNCHANGED search


-----------------------------------------------------------------------------
(* Client.Authenticate: authenticateDeviceCode and pollForToken *)

MaxInterval == 1    \* the longest polling interval a device code declares
MaxWindow == 2      \* the longest validity window a device code declares

Intervals == 0..MaxInterval
Windows == {1, MaxWindow}

(* An error of tryGetToken is the text "<error>: <error_description>" of   *)
(* the provider's error response, or the text of a transport error; a text *)
(* is modelled as the sequence of its words.                               *)
TokenErrors ==
    { <<"authorization_pending", ":", "waiting">>,
      <<"access_denied", ":", "declined">>,
      <<"invalid_grant", ":", "not", "authorization_pending">>,
      <<"token", "request", "failed">> }

(* strings.Contains(text, word) *)
Contains(text, word) == \E i \in 1..Len(text) : text[i] = word

(* line 31: the device code request is sent *)
Authenticate ==
    /\ pc = "idle"
    /\ op' = "auth"
    /\ pc' = "deviceCode"
    /\ ret' = NoRet
    /\ calls' = <<Call("deviceCode", "")>>
    /\ flow' = NoFlow
    /\ UNCHANGED <<now, cache, faults>>
    /\ UNCHANGED search

(* the caller's context is canceled while Authenticate runs *)
Cancel ==
    /\ op = "auth"
    /\ pc \in {"deviceCode", "polling", "tryToken"}
    /\ ~flow.canceled
    /\ flow' = [flow EXCEPT !.canceled = TRUE]
    /\ UNCHANGED <<now, cache, faults, pc, op, ret, calls>>
    /\ UNCHANGED search

(* a variant of DeviceCodeResponse that polls after a failed request *)
DeviceCodeResponseUnchecked ==
    /\ pc = "deviceCode"
    /\ \E interval \in Intervals \ {0}, expiresIn \in Windows :
         /\ calls' = IF flow.canceled THEN Refused(calls)
                     ELSE [calls EXCEPT ![Len(calls)].res = "ok",
                                        ![Len(calls)].at = now]
         /\ pc' = "polling"
         /\ ret' = NoRet
         /\ flow' = [Interval |-> interval, ExpiresIn |-> expiresIn,
                     deadline |-> now + expiresIn,
                     nextTick |-> now + interval,
                     canceled |-> flow.canceled]
    /\ UNCHANGED <<now, cache, faults, op>>
    /\ UNCHANGED search

(* requestDeviceCode answers (lines 31-34; a request whose ctx is canceled *)
(* fails), then lines 97-102 of                                            *)
(* pollForToken: time.NewTicker panics when the interval is not positive   *)
DeviceCodeResponse ==
    /\ pc = "deviceCode"
    /\ \/ \E interval \in Intervals, expiresIn \in Windows :
            /\ ~flow.canceled
            /\ calls' = [calls EXCEPT ![Len(calls)].res = "ok",
                                       ![Len(calls)].at = now]
            /\ IF interval <= 0
               THEN /\ pc' = "crashed"
                    /\ ret' = [NoRet EXCEPT !.err = "panic"]
                    /\ flow' = [NoFlow EXCEPT !.Interval = interval]
               ELSE /\ pc' = "polling"
                    /\ ret' = NoRet
                    /\ flow' = [Interval |-> interval, ExpiresIn |-> expiresIn,
                                deadline |-> now + expiresIn,
                                nextTick |-> now + interval,
                                canceled |-> flow.canceled]
       \/ /\ calls' = Refused(calls)
          /\ Returns("deviceCode", "", "", Len(calls))
          /\ UNCHANGED flow
    /\ UNCHANGED <<now, cache, faults, op>>
    /\ UNCHANGED search

(* a variant of NextTickAfter that lets one more tick pass *)
NextTickAfterSlow(n) ==
    flow.nextTick + flow.Interval * (((n - flow.nextTick) \div flow.Interval) + 2)

(* the time of the first tick of the ticker after the clock reading n *)
NextTickAfter(n) ==
    flow.nextTick + flow.Interval * (((n - flow.nextTick) \div flow.Interval) + 1)

(* a variant of PollTick that takes the device code as expired at the     *)
(* deadline itself                                                         *)
PollTickExpiresEarly ==
    /\ pc = "polling"
    /\ now >= flow.nextTick
    /\ IF now >= flow.deadline
       THEN /\ Returns("expired", "", "", 0)
            /\ UNCHANGED <<calls, flow>>
       ELSE IF flow.canceled
       THEN /\ calls' = Refused(Append(calls, Call("token", "")))
            /\ Returns("canceled", "", "", Len(calls) + 1)
            /\ UNCHANGED flow
       ELSE /\ calls' = Append(calls, Call("token", ""))
            /\ flow' = [flow EXCEPT !.nextTick = NextTickAfter(now)]
            /\ pc' = "tryToken"
            /\ ret' = NoRet
    /\ UNCHANGED <<now, cache, faults, op>>
    /\ UNCHANGED search

(* a variant of PollTick that does not check the deadline *)
PollTickNoDeadline ==
    /\ pc = "polling"
    /\ now >= flow.nextTick
    /\ IF flow.canceled
       THEN /\ calls' = Refused(Append(calls, Call("token", "")))
            /\ Returns("canceled", "", "", Len(calls) + 1)
            /\ UNCHANGED flow
       ELSE /\ calls' = Append(calls, Call("token", ""))
            /\ flow' = [flow EXCEPT !.nextTick = NextTickAfter(now)]
            /\ pc' = "tryToken"
            /\ ret' = NoRet
    /\ UNCHANGED <<now, cache, faults, op>>
    /\ UNCHANGED search

(* lines 108-113: a tick is received (select takes it also when ctx.Done() *)
(* is ready); the deadline is checked, then tryGetToken is called.  With   *)
(* ctx already canceled the http client sends nothing and tryGetToken      *)
(* returns the context's error at once (lines 139-142, 120).               *)
PollTick ==
    /\ pc = "polling"
    /\ now >= flow.nextTick
    /\ IF After(now, flow.deadline)
       THEN /\ Returns("expired", "", "", 0)
            /\ UNCHANGED <<calls, flow>>
       ELSE IF flow.canceled
       THEN /\ calls' = Refused(Append(calls, Call("token", "")))
            /\ Returns("canceled", "", "", Len(calls) + 1)
            /\ UNCHANGED flow
       ELSE /\ calls' = Append(calls, Call("token", ""))
            /\ flow' = [flow EXCEPT !.nextTick = NextTickAfter(now)]
            /\ pc' = "tryToken"
            /\ ret' = NoRet
    /\ UNCHANGED <<now, cache, faults, op>>
    /\ UNCHANGED search

(* lines 106-107: ctx.Done() is received *)
PollCancel ==
    /\ pc = "polling"
    /\ flow.canceled
    /\ Returns("canceled", "", "", 0)
    /\ UNCHANGED <<now, cache, faults, op, calls, flow>>
    /\ UNCHANGED search

(* the error of json.Unmarshal on a response body that was cut short: the  *)
(* error of io.ReadAll is dropped (line 145)                               *)
TruncatedBody == <<"unexpected", "end", "of", "JSON", "input">>

(* tryGetToken answers: lines 113-122 of pollForToken, and on a token      *)
(* lines 46-61 of authenticateDeviceCode.  When ctx is canceled while the  *)
(* request is in flight, the request is aborted with the context's error,  *)
(* or the body that was being read is cut short and fails to parse.        *)
TryTokenResponse ==
    /\ pc = "tryToken"
    /\ \/ \E token \in AccessTokens, refresh \in RefreshTokens,
             expiresIn \in ExpiresIns, w1 \in Outcomes, w2 \in Outcomes :
            LET r == CacheTokens(cache, token, refresh, now + expiresIn, TRUE,
                                 w1, w2)
            IN  /\ ~flow.canceled
                /\ cache' = CacheOf(r)
                /\ faults' = Count(r.ws)
                /\ calls' = TokenAnswer(calls, token, refresh, expiresIn,
                                        Saved(r))
                /\ Returns(r.err, "", "", 0)
       \/ \E e \in TokenErrors :
            /\ ~flow.canceled
            /\ calls' = [Refused(calls) EXCEPT ![Len(calls)].Error = e]
            /\ IF Contains(e, "authorization_pending")
               THEN pc' = "polling" /\ ret' = NoRet
               ELSE Returns("failed", "", "", Len(calls))
            /\ UNCHANGED <<cache, faults>>
       \/ /\ flow.canceled
          /\ \/ /\ calls' = Refused(calls)
                /\ Returns("canceled", "", "", Len(calls))
             \/ /\ calls' = [Refused(calls) EXCEPT
                                ![Len(calls)].Error = TruncatedBody]
                /\ Returns("failed", "", "", Len(calls))
          /\ UNCHANGED <<cache, faults>>
    /\ UNCHANGED <<now, op, flow>>
    /\ UNCHANGED search

-----------------------------------------------------------------------------
(* The TokenCache interface called directly: the set* methods *)

(* expiries handed to the set* methods: never set, and one instant that the *)
(* clock reaches and passes                                                *)
Times == {ZeroTime, MaxTime - 1}

CallSetAccessToken ==
    /\ pc = "idle"
    /\ \E token \in {"", "AT1"}, notAfter \in Times, w \in Outcomes :
         LET r == SetAccessToken(cache, token, notAfter, w)
         IN  /\ cache' = CacheOf(r)
             /\ faults' = Count(<<w>>)
             /\ Returns(r.err, "", "", 0)
    /\ op' = "SetAccessToken"
    /\ UNCHANGED <<now, calls, flow>>
    /\ UNCHANGED search

CallSetRefreshToken ==
    /\ pc = "idle"
    /\ \E token \in {"", "RT1", BadBytes}, w \in Outcomes :
         LET r == SetRefreshToken(cache, token, w)
         IN  /\ cache' = CacheOf(r)
             /\ faults' = Count(<<w>>)
             /\ Returns(r.err, "", "", 0)
    /\ op' = "SetRefreshToken"
    /\ UNCHANGED <<now, calls, flow>>
    /\ UNCHANGED search

CallSetUserToken ==
    /\ pc = "idle"
    /\ \E token \in {"", "UT1"}, notAfter \in Times, w \in Outcomes :
         LET r == SetUserToken(cache, token, notAfter, w)
         IN  /\ cache' = CacheOf(r)
             /\ faults' = Count(<<w>>)
             /\ Returns(r.err, "", "", 0)
    /\ op' = "SetUserToken"
    /\ UNCHANGED <<now, calls, flow>>
    /\ UNCHANGED search

CallSetXSTSToken ==
    /\ pc = "idle"
    /\ \E token \in {"", "XT1"}, userHash \in {"", "UH1"}, notAfter \in Times,
          w \in Outcomes :
         LET r == SetXSTSToken(cache, token, userHash, notAfter, w)
         IN  /\ cache' = CacheOf(r)
             /\ faults' = Count(<<w>>)
             /\ Returns(r.err, "", "", 0)
    /\ op' = "SetXSTSToken"
    /\ UNCHANGED <<now, calls, flow>>
    /\ UNCHANGED search

(* NewFileTokenCacheWithPath: a new FileTokenCache is opened on the same   *)
(* file and takes the place of the old one                                 *)
Reopen ==
    /\ pc = "idle"
    /\ \E r \in Outcomes :
         /\ cache' = [tokens |-> load(cache.file, r), file |-> cache.file]
         /\ faults' = Count(<<r>>)
    /\ op' = "open"
    /\ Returns("nil", "", "", 0)
    /\ UNCHANGED <<now, calls, flow>>
    /\ UNCHANGED search

-----------------------------------------------------------------------------
(* searchGamertags *)

GamertagLists ==
    UNION { [1..n -> Queries] : n \in 0..MaxQueries }

(* SearchResponse.People: up to MaxPeople profiles of the directory, each  *)
(* modelled by its Gamertag                                                *)
PeopleLists ==
    { LET in(g) == g \in S IN SelectSeq(Directory, in) :
        S \in { P \in SUBSET { Directory[i] : i \in DOMAIN Directory } :
                  Cardinality(P) <= MaxPeople } }

(* the GET request for gamertag, with its Authorization header built from  *)
(* userHash and xstsToken; res is "wait" until the directory answers       *)
Request(gamertag, userHash, xstsToken) ==
    [gamertag |-> gamertag, userHash |-> userHash, xstsToken |-> xstsToken,
     res |-> "wait", People |-> <<>>]

(* searchGamertags is called (by GamertagToXUID, LookupProfileByGamertag   *)
(* or GamertagsToXUIDs) and is about to call ensureXSTSToken               *)
SearchGamertags ==
    /\ pc = "idle"
    /\ \E gamertags \in GamertagLists :
         search' = [NoSearch EXCEPT !.gamertags = gamertags]
    /\ op' = "search"
    /\ pc' = "search"
    /\ ret' = NoRet
    /\ UNCHANGED <<now, cache, faults, calls, flow>>

(* a variant of SearchEnsured that does not look at ensureXSTSToken's error *)
SearchEnsuredUnchecked ==
    /\ pc = "ensured"
    /\ IF Len(search.gamertags) = 0
       THEN pc' = "idle" /\ search' = search
       ELSE /\ pc' = "searching"
            /\ search' = [search EXCEPT !.requests =
                   <<Request(search.gamertags[1], ret.userHash, ret.token)>>]
    /\ UNCHANGED <<now, cache, faults, op, ret, calls, flow>>

(* lines 146-167: ensureXSTSToken has returned; its error is returned, or  *)
(* the request for the first gamertag is sent                              *)
SearchEnsured ==
    /\ pc = "ensured"
    /\ IF ret.err # "nil" \/ Len(search.gamertags) = 0
       THEN pc' = "idle" /\ search' = search
       ELSE /\ pc' = "searching"
            /\ search' = [search EXCEPT !.requests =
                   <<Request(search.gamertags[1], ret.userHash, ret.token)>>]
    /\ UNCHANGED <<now, cache, faults, op, ret, calls, flow>>

(* lines 188-203: the profiles of people that are kept for gamertag, and   *)
(* whether one of them matched                                             *)
Matches(gamertag, people) ==
    LET matches(g) == Normalized(g) = Normalized(gamertag)
    IN  SelectSeq(people, matches)

(* lines 167-206: the directory answers the request in flight: an error    *)
(* ends the call without profiles; otherwise the matching profiles, or all *)
(* of them when none matches, are appended and the next request is sent    *)
SearchResponse ==
    /\ pc = "searching"
    /\ LET k == Len(search.requests)
           gamertag == search.gamertags[k]
       IN  \/ /\ search' = [search EXCEPT !.requests[k].res = "err",
                                          !.allProfiles = <<>>,
                                          !.fuzzyOnly = <<>>]
              /\ ret' = [ret EXCEPT !.err = "search"]
              /\ pc' = "idle"
           \/ \E people \in PeopleLists :
                LET matched == Matches(gamertag, people) # <<>>
                    all == search.allProfiles \o
                             (IF matched THEN Matches(gamertag, people)
                              ELSE people)
                    fuzzy == IF matched THEN search.fuzzyOnly
                             ELSE Append(search.fuzzyOnly, gamertag)
                    answered == [search.requests EXCEPT
                                   ![k].res = "ok", ![k].People = people]
                IN  /\ search' =
                        [search EXCEPT
                           !.allProfiles = all, !.fuzzyOnly = fuzzy,
                           !.requests =
                              IF k < Len(search.gamertags)
                              THEN Append(answered,
                                     Request(search.gamertags[k + 1],
                                             ret.userHash, ret.token))
                              ELSE answered]
                    /\ pc' = IF k < Len(search.gamertags) THEN "searching"
                             ELSE "idle"
                    /\ ret' = ret
    /\ UNCHANGED <<now, cache, faults, op, calls, flow>>

(* A store as a process finds it at its start: empty, or holding the       *)
(* security token and user hash that an earlier run has written            *)
WarmTokens ==
    [EmptyTokens EXCEPT !.XSTSToken = "XT1", !.UserHash = "UH1",
                        !.XSTSTokenExpiry = MaxTime - 1]

(* ... or holding a user token only, its security token having expired    *)
(* and been cleared with the rest but for the user token                   *)
UserOnlyTokens ==
    [EmptyTokens EXCEPT !.UserToken = "UT1", !.UserTokenExpiry = MaxTime - 1]

InitSearch ==
    /\ now = 1
    /\ cache \in { [tokens |-> t,
                    file |-> IF t = EmptyTokens THEN NoFile
                             ELSE [exists |-> TRUE, data |-> Marshal(t)]] :
                   t \in {EmptyTokens, WarmTokens, UserOnlyTokens} }
    /\ faults = 0
    /\ pc = "idle"
    /\ op = "none"
    /\ ret = NoRet
    /\ calls = <<>>
    /\ flow = NoFlow
    /\ search = NoSearch

(* Gamertag resolution, at one reading of the clock, on a store that holds *)
(* a security token, a user token or nothing                               *)
NextSearch ==
    \/ SearchGamertags
    \/ EnsureXSTSToken
    \/ XSTSCachedResponse
    \/ SearchEnsured
    \/ SearchResponse

SpecSearch == InitSearch /\ [][NextSearch]_vars

-----------------------------------------------------------------------------
(* The stores a process may find at its start, written by earlier runs:    *)
(* each token absent or present, the expiring tokens with one expiry that  *)
(* the clock passes, the security token with or without user hash          *)
Expiries == {MaxTime - 2}

StoresAtStart ==
    { [AccessToken |-> a.token, AccessTokenExpiry |-> a.notAfter,
       RefreshToken |-> r,
       UserToken |-> u.token, UserTokenExpiry |-> u.notAfter,
       XSTSToken |-> x.token, XSTSTokenExpiry |-> x.notAfter,
       UserHash |-> x.userHash] :
        a \in {[token |-> "", notAfter |-> ZeroTime]}
                 \cup {[token |-> "AT1", notAfter |-> e] : e \in Expiries},
        r \in {"", "RT0"},
        u \in {[token |-> "", notAfter |-> ZeroTime]}
                 \cup {[token |-> "UT1", notAfter |-> e] : e \in Expiries},
        x \in {[token |-> "", notAfter |-> ZeroTime, userHash |-> ""]}
                 \cup {[token |-> "XT1", notAfter |-> e, userHash |-> h] :
                         e \in Expiries, h \in {"", "UH1"}} }

InitChain ==
    /\ now = 1
    /\ cache \in { [tokens |-> t,
                    file |-> IF t = EmptyTokens THEN NoFile
                             ELSE [exists |-> TRUE, data |-> Marshal(t)]] :
                   t \in StoresAtStart }
    /\ faults = 0
    /\ pc = "idle"
    /\ op = "none"
    /\ ret = NoRet
    /\ calls = <<>>
    /\ flow = NoFlow
    /\ search = NoSearch

(* ensureXSTSToken on its own, on every such store *)
NextChain ==
    \/ Tick
    \/ EnsureXSTSToken
    \/ XSTSCachedResponse
    \/ RefreshResponse
    \/ AfterRefresh
    \/ UserTokenResponse
    \/ XSTSResponse

SpecChain == InitChain /\ [][NextChain]_vars

-----------------------------------------------------------------------------
(* The client: Authenticate, ensureXSTSToken and ClearCache *)
Next ==
    \/ Tick
    \/ Authenticate
    \/ Cancel
    \/ DeviceCodeResponse
    \/ PollTick
    \/ PollCancel
    \/ TryTokenResponse
    \/ EnsureXSTSToken
    \/ XSTSCachedResponse
    \/ RefreshResponse
    \/ AfterRefresh
    \/ UserTokenResponse
    \/ XSTSResponse
    \/ ClearCache

Spec == Init /\ [][Next]_vars

(* The token cache on its own: its set* methods and Clear, and the clock *)
NextStore ==
    \/ Tick
    \/ CallSetAccessToken
    \/ CallSetRefreshToken
    \/ CallSetUserToken
    \/ CallSetXSTSToken
    \/ ClearCache

SpecStore == Init /\ [][NextStore]_vars

(* The store written through its methods and opened again on its file *)
NextReopen ==
    \/ Tick
    \/ CallSetAccessToken
    \/ CallSetRefreshToken
    \/ CallSetUserToken
    \/ CallSetXSTSToken
    \/ ClearCache
    \/ Reopen

SpecReopen == Init /\ [][NextReopen]_vars

(* The device code flow on its own, with every provider answer and the     *)
(* caller's cancellation                                                   *)
NextFlow ==
    \/ Tick
    \/ Authenticate
    \/ Cancel
    \/ DeviceCodeResponse
    \/ PollTick
    \/ PollCancel
    \/ TryTokenResponse
    \/ ClearCache

SpecFlow == Init /\ [][NextFlow]_vars

(* The provider keeps the authorization pending *)
TryTokenPending == TryTokenResponse /\ pc' = "polling"

(* The provider returns a token *)
TryTokenGranted == TryTokenResponse /\ calls'[Len(calls')].res = "ok"

(* The device code flow with a caller that does not cancel and a provider  *)
(* that answers every poll with authorization_pending or with a token      *)
NextPolling ==
    \/ Tick
    \/ Authenticate
    \/ DeviceCodeResponse
    \/ PollTick
    \/ TryTokenPending
    \/ TryTokenGranted
    \/ ClearCache

(* The clock advances, a ticker delivers its ticks and every request is    *)
(* answered (the http client has a timeout)                                *)
Fairness ==
    /\ WF_vars(Tick)
    /\ WF_vars(DeviceCodeResponse)
    /\ WF_vars(PollTick)
    /\ WF_vars(TryTokenPending)

SpecPolling == Init /\ [][NextPolling]_vars /\ Fairness


-----------------------------------------------------------------------------
(* Vocabulary of the properties *)

T == cache.tokens

(* the operation o has returned and nothing was called since *)
Done(o) == pc = "idle" /\ op = o

Last == calls[Len(calls)]

(* the provider accepted every exchange of the operation *)
Accepted == \A i \in 1..Len(calls) : calls[i].res = "ok"

(* no write to the store failed during the operation *)
Persisted == \A i \in 1..Len(calls) : calls[i].saved # "fail"

Kinds == [i \in 1..Len(calls) |-> calls[i].kind]

(* a stored token is usable: its string is not empty and the clock is not  *)
(* after its expiry; the security token also needs its user hash           *)
AccessUsable == T.AccessToken # "" /\ now <= T.AccessTokenExpiry
UserUsable == T.UserToken # "" /\ now <= T.UserTokenExpiry
SecurityUsable ==
    T.XSTSToken # "" /\ T.UserHash # "" /\ now <= T.XSTSTokenExpiry

(* ensureXSTSToken returns the stored security token without any call *)
ReturnsStored ==
    /\ pc' = "idle"
    /\ calls' = <<>>
    /\ ret' = [err |-> "nil", token |-> T.XSTSToken, userHash |-> T.UserHash,
               cause |-> 0]
    /\ cache' = cache

-----------------------------------------------------------------------------
(* C1, as stated: if the store holds a security token that is not empty    *)
(* and whose expiry is in the future when ensureXSTSToken is called, the   *)
(* call issues no network call, returns the stored token and user hash and *)
(* leaves the store unchanged.                                             *)
C1_WarmCacheAsStated ==
    [][(EnsureXSTSToken /\ T.XSTSToken # "" /\ now < T.XSTSTokenExpiry)
        => ReturnsStored]_vars

(* C1, amended: the same when the stored user hash is not empty as well.   *)
C1_WarmCache ==
    [][(EnsureXSTSToken /\ SecurityUsable) => ReturnsStored]_vars

(* C1: ensureXSTSToken has returned the stored security token at the       *)
(* instant of its expiry                                                   *)
C1_Witness ==
    /\ Done("ensure") /\ ret.err = "nil" /\ calls = <<>>
    /\ ret.token = T.XSTSToken /\ ret.token # ""
    /\ now = T.XSTSTokenExpiry

-----------------------------------------------------------------------------
(* C2, as stated: when a user token is cached whose expiry is in the       *)
(* future and no security token, and the provider accepts the exchange     *)
(* (and the store the write), the call of ensureXSTSToken returns after    *)
(* exactly two network calls.                                              *)
C2_TwoCallsAsStated ==
    [][(/\ XSTSCachedResponse
        /\ T.XSTSToken = "" /\ now < T.UserTokenExpiry
        /\ Len(calls') >= 1 /\ calls'[1].res = "ok" /\ calls'[1].saved = "ok")
       => (pc' = "idle" /\ Len(calls') = 2)]_vars

(* C2, amended: it issues exactly one network call, the exchange of the    *)
(* cached user token for a security token, whose answer ends the call.     *)
C2_OneCall ==
    [][/\ (EnsureXSTSToken /\ UserUsable /\ ~SecurityUsable)
            => (calls' = <<Call("xsts", T.UserToken)>> /\ pc' = "xstsCached")
       /\ (XSTSCachedResponse /\ Len(calls') >= 1 /\ calls'[1].res = "ok")
            => (pc' = "idle" /\ Len(calls') = 1
                /\ ret'.err = (IF calls'[1].saved = "ok" THEN "nil"
                                                         ELSE "storage"))
      ]_vars

(* C2: a call has returned the security token obtained from the cached     *)
(* user token                                                              *)
C2_Witness ==
    /\ Done("ensure") /\ ret.err = "nil"
    /\ Len(calls) = 1 /\ calls[1].kind = "xsts" /\ calls[1].res = "ok"
    /\ ret.token = calls[1].Token

-----------------------------------------------------------------------------
(* the result of a call whose first exchange was the user token exchange   *)
(* of step 4 and in which the provider accepted every exchange and the     *)
(* store every write                                                       *)
C3_Result ==
    (/\ Done("ensure") /\ Len(calls) >= 1 /\ calls[1].kind = "user"
     /\ Accepted /\ Persisted)
    => /\ Kinds = <<"user", "xsts">>
       /\ calls[2].arg = calls[1].Token
       /\ ret = [err |-> "nil", token |-> calls[2].Token,
                 userHash |-> extractUserHash(calls[2].DisplayClaims),
                 cause |-> 0]
       /\ T.UserToken = calls[1].Token
       /\ T.UserTokenExpiry = calls[1].NotAfter
       /\ T.XSTSToken = calls[2].Token
       /\ T.XSTSTokenExpiry = calls[2].NotAfter
       /\ T.UserHash = ret.userHash
       /\ cache.file = [exists |-> TRUE, data |-> Marshal(T)]

-----------------------------------------------------------------------------
(* the store is cold: no usable access, user or security token, and a      *)
(* refresh token                                                           *)
Cold ==
    /\ ~AccessUsable /\ ~UserUsable /\ ~SecurityUsable
    /\ T.RefreshToken # ""

(* the stored security token, if any, has its user hash *)
NoHashlessToken == T.XSTSToken = "" \/ T.UserHash # ""

C4_StartsWithRefresh ==
    (EnsureXSTSToken /\ Cold)
        => (calls' = <<Call("refresh", T.RefreshToken)>> /\ pc' = "refresh")

C4_FullChain ==
    /\ Kinds = <<"refresh", "user", "xsts">>
    /\ calls[2].arg = calls[1].Token
    /\ calls[3].arg = calls[2].Token
    /\ ret.err = "nil"
    /\ ret.token = calls[3].Token

(* C4, as stated: starting cold with only a refresh token, whenever the    *)
(* provider answers every exchange successfully (and the store accepts     *)
(* every write), one call issues the refresh, the user token and the       *)
(* security token exchange in that order and returns the security token,   *)
(* whatever lifetime the refresh response declares.                        *)
C4_ColdChainAsStated ==
    [][/\ C4_StartsWithRefresh
       /\ (RefreshResponse /\ Last'.res = "ok" /\ Last'.saved = "ok")
            => pc' = "refreshed"
       /\ (AfterRefresh /\ Len(calls) = 1 /\ NoHashlessToken)
            => (calls' = Append(calls, Call("user", Last.Token))
                /\ pc' = "userToken")
       /\ ((/\ Done("ensure") /\ Len(calls) >= 2 /\ calls[1].kind = "refresh"
            /\ Accepted /\ Persisted)
           => C4_FullChain)'
      ]_vars

(* C4, amended: the same provided the declared lifetime of the refreshed   *)
(* access token has not run out when the token is read back from the       *)
(* store; the chain has exactly three calls.  When the lifetime has run    *)
(* out the call fails after the refresh exchange alone.                    *)
C4_ColdChain ==
    [][/\ C4_StartsWithRefresh
       /\ (RefreshResponse /\ Last'.res = "ok" /\ Last'.saved = "ok")
            => pc' = "refreshed"
       /\ (AfterRefresh /\ now <= Last.at + Last.ExpiresIn)
            => (calls' = Append(calls, Call("user", Last.Token))
                /\ pc' = "userToken")
       /\ (AfterRefresh /\ now > Last.at + Last.ExpiresIn)
            => (calls' = calls /\ pc' = "idle" /\ ret'.err = "noAccessToken")
       /\ ((/\ Done("ensure") /\ Len(calls) >= 2 /\ calls[1].kind = "refresh"
            /\ Accepted /\ Persisted)
           => C4_FullChain)'
      ]_vars

(* C4: a call that started with the refresh exchange has returned the      *)
(* security token                                                          *)
C4_Witness ==
    Done("ensure") /\ Len(calls) = 3 /\ calls[1].kind = "refresh" /\ C4_FullChain

-----------------------------------------------------------------------------
(* ensureXSTSToken arrives at step 3 (line 351) in this step *)
AtStep3 ==
    \/ EnsureXSTSToken /\ ~UserUsable /\ ~SecurityUsable
    \/ XSTSCachedResponse /\ Len(calls') >= 1 /\ calls'[1].res = "err"

(* the log of the calls issued before step 3 *)
UpToStep3 == IF pc = "xstsCached" THEN Refused(calls) ELSE <<>>

(* C5: if ensureXSTSToken reaches step 3 with no valid stored access token *)
(* and no refresh token is stored, or the refresh exchange fails, it fails *)
(* with "not authenticated" and issues no user token or security token     *)
(* exchange after that; with no refresh token it issues no refresh call.   *)
C5_NotAuthenticated ==
    [][/\ (AtStep3 /\ ~AccessUsable /\ T.RefreshToken = "")
            => (/\ pc' = "idle" /\ ret'.err = "notAuthenticated"
                /\ calls' = UpToStep3)
       /\ (RefreshResponse /\ Last'.res = "err")
            => (/\ pc' = "idle" /\ ret'.err = "notAuthenticated"
                /\ calls' = Refused(calls))
       /\ ((Done("ensure") /\ ret.err = "notAuthenticated")
            => \A i \in 1..Len(calls) :
                 /\ calls[i].kind # "user"
                 /\ calls[i].kind = "xsts" => i = 1)'
      ]_vars

(* C5: a call has failed with "not authenticated" on a refused refresh     *)
C5_Witness ==
    /\ Done("ensure") /\ ret.err = "notAuthenticated"
    /\ Len(calls) >= 1 /\ Last.kind = "refresh" /\ Last.res = "err"

-----------------------------------------------------------------------------
(* C6: if the exchange of a valid stored user token fails at the provider, *)
(* ensureXSTSToken does not fail at that point: it goes on with step 3     *)
(* (the stored access token if valid, else the refresh) and the error of   *)
(* that exchange is never the returned error.                              *)
C6_FallThrough ==
    [][/\ (XSTSCachedResponse /\ Len(calls') >= 1 /\ calls'[1].res = "err")
            => /\ cache' = cache
               /\ AccessUsable
                    => (/\ calls' = Append(Refused(calls),
                                           Call("user", T.AccessToken))
                        /\ pc' = "userToken")
               /\ (~AccessUsable /\ T.RefreshToken # "")
                    => (/\ calls' = Append(Refused(calls),
                                           Call("refresh", T.RefreshToken))
                        /\ pc' = "refresh")
               /\ (~AccessUsable /\ T.RefreshToken = "")
                    => (/\ calls' = Refused(calls) /\ pc' = "idle"
                        /\ ret'.err = "notAuthenticated" /\ ret'.cause = 0)
       /\ ((/\ Done("ensure") /\ Len(calls) >= 1
            /\ calls[1].kind = "xsts" /\ calls[1].res = "err")
           => ret.cause # 1)'
      ]_vars

(* C6: a call has returned a security token after the exchange of the      *)
(* cached user token was refused                                           *)
C6_Witness ==
    /\ Done("ensure") /\ ret.err = "nil"
    /\ Len(calls) >= 3 /\ calls[1].kind = "xsts" /\ calls[1].res = "err"

-----------------------------------------------------------------------------
(* what the get* methods report of the stored record at the clock reading  *)
Access == GetAccessToken(T, now)
Refresh == GetRefreshToken(T)
User == GetUserToken(T, now)
Security == GetXSTSToken(T, now)

(* C7, as stated: for the access, user and security token, after any       *)
(* sequence of set* calls and any passage of time, get* never reports the  *)
(* token valid when its expiry is in the past, always reports it valid     *)
(* when its string is not empty and its expiry is in the future, and never *)
(* reports it valid when its string is empty.                              *)
C7_ValidityAsStated ==
    /\ T.AccessTokenExpiry < now => ~Access.ok
    /\ T.UserTokenExpiry < now => ~User.ok
    /\ T.XSTSTokenExpiry < now => ~Security.ok
    /\ (T.AccessToken # "" /\ now < T.AccessTokenExpiry) => Access.ok
    /\ (T.UserToken # "" /\ now < T.UserTokenExpiry) => User.ok
    /\ (T.XSTSToken # "" /\ now < T.XSTSTokenExpiry) => Security.ok
    /\ T.AccessToken = "" => ~Access.ok
    /\ T.UserToken = "" => ~User.ok
    /\ T.XSTSToken = "" => ~Security.ok

(* C7, amended: the same, except that the security token is reported valid *)
(* when its expiry is in the future and neither its string nor the stored  *)
(* user hash is empty, and never when the user hash is empty.              *)
C7_Validity ==
    /\ T.AccessTokenExpiry < now => ~Access.ok
    /\ T.UserTokenExpiry < now => ~User.ok
    /\ T.XSTSTokenExpiry < now => ~Security.ok
    /\ (T.AccessToken # "" /\ now < T.AccessTokenExpiry)
         => (Access.ok /\ Access.token = T.AccessToken)
    /\ (T.UserToken # "" /\ now < T.UserTokenExpiry)
         => (User.ok /\ User.token = T.UserToken)
    /\ (T.XSTSToken # "" /\ T.UserHash # "" /\ now < T.XSTSTokenExpiry)
         => (/\ Security.ok /\ Security.token = T.XSTSToken
             /\ Security.userHash = T.UserHash)
    /\ T.AccessToken = "" => ~Access.ok
    /\ T.UserToken = "" => ~User.ok
    /\ (T.XSTSToken = "" \/ T.UserHash = "") => ~Security.ok

(* C7: set* calls have stored a user token that has expired and a security *)
(* token with its user hash that has not                                   *)
C7_Witness ==
    /\ pc = "idle" /\ op = "SetXSTSToken" /\ ret.err = "nil"
    /\ T.UserToken # "" /\ T.UserTokenExpiry < now /\ ~User.ok
    /\ T.XSTSToken # "" /\ now < T.XSTSTokenExpiry /\ Security.ok

-----------------------------------------------------------------------------
(* C8, as stated: a stored access, user or security token is reported      *)
(* valid only while the clock is strictly before its expiry; the refresh   *)
(* token is reported present exactly when its string is not empty.         *)
C8_StrictExpiryAsStated ==
    /\ Access.ok => now < T.AccessTokenExpiry
    /\ User.ok => now < T.UserTokenExpiry
    /\ Security.ok => now < T.XSTSTokenExpiry
    /\ Refresh.ok <=> T.RefreshToken # ""

(* C8, amended: a stored token is reported valid only while the clock is   *)
(* not after its expiry, and at the instant of its expiry it is still      *)
(* reported valid; the refresh token is reported present exactly when its  *)
(* string is not empty.                                                    *)
C8_Expiry ==
    /\ Access.ok => now <= T.AccessTokenExpiry
    /\ User.ok => now <= T.UserTokenExpiry
    /\ Security.ok => now <= T.XSTSTokenExpiry
    /\ (T.AccessToken # "" /\ now = T.AccessTokenExpiry) => Access.ok
    /\ (T.UserToken # "" /\ now = T.UserTokenExpiry) => User.ok
    /\ (T.XSTSToken # "" /\ T.UserHash # "" /\ now = T.XSTSTokenExpiry)
         => Security.ok
    /\ Refresh.ok <=> T.RefreshToken # ""
    /\ Refresh.ok => Refresh.token = T.RefreshToken

(* C8: the clock has reached the expiry of a stored access token, and a    *)
(* refresh token is stored                                                 *)
C8_Witness ==
    /\ T.AccessToken # "" /\ now = T.AccessTokenExpiry /\ Access.ok
    /\ T.RefreshToken # "" /\ Refresh.ok

-----------------------------------------------------------------------------
(* every get* method reports absent on the record t, at every clock reading *)
AllAbsent(t) ==
    /\ ~GetRefreshToken(t).ok
    /\ \A n \in 0..MaxTime :
         /\ ~GetAccessToken(t, n).ok
         /\ ~GetUserToken(t, n).ok
         /\ ~GetXSTSToken(t, n).ok

(* C9: from any store state, after Clear every get* method reports absent  *)
(* for all four token kinds; Clear on a store with no persisted state, and *)
(* a Clear that follows a successful Clear, succeed and leave the empty    *)
(* store.                                                                  *)
C9_Clear ==
    [][ClearCache =>
        /\ AllAbsent(cache'.tokens)
        /\ ~cache.file.exists
             => (/\ ret'.err = "nil"
                 /\ cache' = [tokens |-> EmptyTokens, file |-> NoFile])
        /\ (op = "clear" /\ ret.err = "nil")
             => (ret'.err = "nil" /\ cache' = cache)
        /\ ret'.err = "nil" => cache' = [tokens |-> EmptyTokens, file |-> NoFile]
       ]_vars

(* C9: Clear has succeeded after a write to the store had failed, and     *)
(* left the empty store                                                    *)
C9_Witness ==
    /\ Done("clear") /\ ret.err = "nil" /\ faults > 0
    /\ AllAbsent(T) /\ ~cache.file.exists

-----------------------------------------------------------------------------
(* C10: whenever Authenticate returns success, the store holds, at the     *)
(* time of completion, a valid access token equal to the token the         *)
(* provider returned, with expiry the completion time plus the declared    *)
(* lifetime, and a refresh token that is not empty.                        *)
C10_AfterAuthenticate ==
    (Done("auth") /\ ret.err = "nil" /\ now = Last.at)
    => /\ Access.ok
       /\ T.AccessToken = Last.Token
       /\ T.AccessTokenExpiry = Last.at + Last.ExpiresIn
       /\ T.RefreshToken # ""

-----------------------------------------------------------------------------
(* C11: after Authenticate has returned success, from any prior store      *)
(* state, the store reports no user token and no security token until      *)
(* ensureXSTSToken is called, and that call starts with the user token     *)
(* exchange of the newly stored access token.                              *)
C11_ChainRestarts ==
    [][(Done("auth") /\ ret.err = "nil")
        => /\ ~User.ok /\ ~Security.ok
           /\ (EnsureXSTSToken /\ Access.ok)
                => calls' = <<Call("user", T.AccessToken)>>]_vars

-----------------------------------------------------------------------------
(* the device code flow: the calls after the device code request are the   *)
(* poll attempts                                                           *)
Attempts == Len(calls) - 1

(* the instant polling began *)
Began == flow.deadline - flow.ExpiresIn

(* the flow has ended after it had begun to poll *)
Polled == Done("auth") /\ Len(calls) >= 1 /\ calls[1].res = "ok"

(* the flow has ended on a token: Succeeded *)
Granted == Polled /\ Attempts >= 1 /\ Last.kind = "token" /\ Last.res = "ok"

(* the flow is polling and the clock has room to run past its window *)
Polling ==
    /\ op = "auth" /\ pc \in {"polling", "tryToken"}
    /\ flow.deadline + flow.Interval <= MaxTime

(* C12, as stated: with no cancellation and a provider that answers        *)
(* authorization_pending to the first N attempts and then returns a token, *)
(* the flow does not end in Expired while N+1 polling intervals fit in the *)
(* window, and it is Succeeded at an elapsed time within the window.       *)
C12_SucceedsInWindowAsStated ==
    /\ (Polled /\ ret.err = "expired")
         => (Attempts + 1) * flow.Interval > flow.ExpiresIn
    /\ (Granted /\ Persisted) => (ret.err = "nil" /\ Last.at <= flow.deadline)

(* C12, amended: with no cancellation and such a provider, a tick that is  *)
(* served while the elapsed time is within the window issues an attempt,   *)
(* every attempt is issued within the window, and the flow is Succeeded    *)
(* when the provider's token arrives, after exactly N+1 attempts of which  *)
(* the first N were answered authorization_pending; the flow ends.         *)
C12_Succeeds ==
    /\ [][/\ (PollTick /\ now <= flow.deadline)
               => (/\ calls' = Append(calls, Call("token", ""))
                   /\ pc' = "tryToken")
          /\ (PollTick /\ pc' = "tryToken") => now - Began <= flow.ExpiresIn
          /\ TryTokenGranted
               => (/\ pc' = "idle"
                   /\ Last'.saved = "ok" => ret'.err = "nil"
                   /\ \A i \in 2..(Len(calls) - 1) : calls[i].res = "err")
         ]_vars
    /\ Polling ~> Done("auth")

(* C12: the flow has Succeeded on its second attempt *)
C12_Witness ==
    Granted /\ ret.err = "nil" /\ Attempts = 2 /\ calls[2].res = "err"

-----------------------------------------------------------------------------
(* C13: with no cancellation and a provider that always answers            *)
(* authorization_pending, the flow ends, and it ends in Expired; Expired   *)
(* is never reported while the elapsed time is within the window; it is    *)
(* reported by the first tick served after the window, and that tick is    *)
(* due no later than one polling interval after the end of the window.     *)
C13_Expires ==
    /\ [][/\ (PollTick /\ ret'.err = "expired") => now - Began > flow.ExpiresIn
          /\ (PollTick /\ now - Began > flow.ExpiresIn)
               => (pc' = "idle" /\ ret'.err = "expired" /\ calls' = calls)
         ]_vars
    /\ [](/\ (op = "auth" /\ pc = "polling")
               => flow.nextTick <= flow.deadline + flow.Interval
          /\ (Polled /\ \A i \in 2..Len(calls) : calls[i].res = "err")
               => ret.err = "expired")
    /\ Polling ~> (Done("auth") /\ (Granted \/ ret.err = "expired"))

(* C13: the flow has Expired after the provider answered every attempt     *)
(* with authorization_pending                                              *)
C13_Witness ==
    /\ Polled /\ ret.err = "expired" /\ Attempts >= 2
    /\ \A i \in 2..Len(calls) : calls[i].res = "err"

-----------------------------------------------------------------------------
(* C14: while polling, no attempt is issued at a moment when the elapsed   *)
(* time since polling began exceeds the window: the tick served at such a  *)
(* moment ends the flow in Expired and issues nothing.                     *)
C14_NoLateAttempt ==
    [][(op = "auth" /\ pc = "polling")
        => /\ Len(calls') > Len(calls) => now - Began <= flow.ExpiresIn
           /\ (PollTick /\ now - Began > flow.ExpiresIn)
                => (calls' = calls /\ pc' = "idle" /\ ret'.err = "expired")
      ]_vars

(* C14: a tick served after the window has ended the flow in Expired       *)
(* before any attempt                                                      *)
C14_Witness ==
    Polled /\ ret.err = "expired" /\ Attempts = 0 /\ now > flow.deadline

-----------------------------------------------------------------------------
(* C15: once the cancellation is raised while the flow waits in Polling,   *)
(* the flow ends in Canceled, no further attempt is started (also when a   *)
(* tick is ready together with the signal) and the store is not modified.  *)
C15_Canceled ==
    [][(op = "auth" /\ pc = "polling" /\ flow.canceled
        /\ (PollTick \/ PollCancel))
       => (/\ pc' = "idle" /\ ret'.err = "canceled"
           /\ calls' = calls
           /\ cache' = cache)]_vars

-----------------------------------------------------------------------------
(* C16: the polling loop keeps polling only when the provider's error is   *)
(* authorization_pending; every other error response, whatever its code    *)
(* and description, ends the flow in Failed at that attempt.               *)
C16_OnlyPending ==
    [][(/\ TryTokenResponse /\ Last'.res = "err" /\ Len(Last'.Error) > 0
        /\ Last'.Error[1] # "authorization_pending")
       => (pc' = "idle" /\ ret'.err = "failed" /\ ret'.cause = Len(calls))]_vars

-----------------------------------------------------------------------------
(* C17: for every device code response (any interval, zero included, any   *)
(* window) and every provider behaviour, an Authenticate that is no longer *)
(* requesting or polling has ended in Succeeded, Expired, Failed or        *)
(* Canceled (or on an error of the device code request or of the store).   *)
C17_Terminates ==
    (op = "auth" /\ pc \notin {"deviceCode", "polling", "tryToken"})
    => (/\ pc = "idle"
        /\ ret.err \in {"nil", "expired", "failed", "canceled", "deviceCode",
                        "storage"})

-----------------------------------------------------------------------------
SetOps == {"SetAccessToken", "SetRefreshToken", "SetUserToken", "SetXSTSToken"}

(* a set* method of the store has returned without error *)
SetSucceeded == pc = "idle" /\ op \in SetOps /\ ret.err = "nil"

(* the file f holds the values of the record t *)
Durable(f, t) ==
    /\ f.exists
    /\ f.data.access_token = t.AccessToken
    /\ f.data.access_token_expiry = t.AccessTokenExpiry
    /\ f.data.refresh_token = t.RefreshToken
    /\ f.data.user_token = t.UserToken
    /\ f.data.user_token_expiry = t.UserTokenExpiry
    /\ f.data.xsts_token = t.XSTSToken
    /\ f.data.xsts_token_expiry = t.XSTSTokenExpiry
    /\ f.data.user_hash = t.UserHash

(* every token and the user hash of the record t are valid UTF-8 *)
AllValidUTF8(t) ==
    /\ ValidUTF8(t.AccessToken) /\ ValidUTF8(t.RefreshToken)
    /\ ValidUTF8(t.UserToken) /\ ValidUTF8(t.XSTSToken)
    /\ ValidUTF8(t.UserHash)

(* the store opened in this step read its file, and returns the get*       *)
(* results of the store it replaces                                        *)
SameResults ==
    /\ GetAccessToken(cache'.tokens, now) = Access
    /\ GetRefreshToken(cache'.tokens) = Refresh
    /\ GetUserToken(cache'.tokens, now) = User
    /\ GetXSTSToken(cache'.tokens, now) = Security

(* C18, as stated: after any set* method of the file store has returned    *)
(* without error, the file holds the same values as the in-memory record   *)
(* for the four tokens, their expiries and the user hash, so that a store  *)
(* opened on the same file returns the same get* results.                  *)
C18_DurableAsStated ==
    /\ [](SetSucceeded => Durable(cache.file, T))
    /\ [][(SetSucceeded /\ op' = "open" /\ faults' = faults) => SameResults]_vars

(* C18, amended: after a set* method of the file store has returned        *)
(* without error, and every token and the user hash in the in-memory       *)
(* record are valid UTF-8, the file holds the same values as the in-memory *)
(* record for the four tokens, their expiries and the user hash, whatever  *)
(* earlier writes failed, and a store opened on the same file that can     *)
(* read it returns the same get* results.                                  *)
C18_Durable ==
    /\ []((SetSucceeded /\ AllValidUTF8(T)) => Durable(cache.file, T))
    /\ [][(SetSucceeded /\ AllValidUTF8(T) /\ op' = "open" /\ faults' = faults)
            => SameResults /\ cache'.tokens = T]_vars

(* C18: a store has been opened on the file that set* calls had written    *)
(* after an earlier write had failed, and reports a valid security token   *)
(* and a refresh token                                                     *)
C18_Witness ==
    /\ Done("open") /\ faults > 0 /\ Durable(cache.file, T)
    /\ Security.ok /\ Refresh.ok

-----------------------------------------------------------------------------
(* a store write failed during the operation that has returned *)
WriteFailed == \E i \in 1..Len(calls) : calls[i].saved = "fail"

(* C19: whenever a store write fails during ensureXSTSToken (while         *)
(* persisting a refreshed access token, a user token or a security token), *)
(* the call returns the storage error, not the not-authenticated error,    *)
(* and returns no token.                                                   *)
C19_StorageError ==
    (Done("ensure") /\ WriteFailed)
        => (ret.err = "storage" /\ ret.token = "" /\ ret.userHash = "")

-----------------------------------------------------------------------------
(* a string without its whitespace (spaces and tabs), in lower case *)
WithoutWhitespace(s) == ReplaceAll(ReplaceAll(ToLower(s), " "), Tab)

(* the profiles of people whose gamertag equals the query after            *)
(* lower-casing and removing whitespace                                    *)
Matching(gamertag, people) ==
    LET same(g) == WithoutWhitespace(g) = WithoutWhitespace(gamertag)
    IN  SelectSeq(people, same)

(* the profiles to return for the requests k.., and the gamertags among    *)
(* them to report as fuzzy-only                                            *)
RECURSIVE Expected(_, _)
Expected(rs, k) ==
    IF k > Len(rs) THEN [profiles |-> <<>>, fuzzy |-> <<>>]
    ELSE LET m == Matching(rs[k].gamertag, rs[k].People)
             rest == Expected(rs, k + 1)
         IN  IF m # <<>>
             THEN [profiles |-> m \o rest.profiles, fuzzy |-> rest.fuzzy]
             ELSE [profiles |-> rs[k].People \o rest.profiles,
                   fuzzy |-> <<rs[k].gamertag>> \o rest.fuzzy]

(* C20: when searchGamertags returns without error, then for each queried  *)
(* gamertag, comparing the query and each result after lower-casing and    *)
(* removing whitespace: if at least one result matches, exactly the        *)
(* matching results were returned for that query and the gamertag is not   *)
(* reported as fuzzy-only; if none matches, all results of that query were *)
(* returned and the gamertag is reported as fuzzy-only.                    *)
C20_Matching ==
    (Done("search") /\ ret.err = "nil")
        => /\ search.allProfiles = Expected(search.requests, 1).profiles
           /\ search.fuzzyOnly = Expected(search.requests, 1).fuzzy

-----------------------------------------------------------------------------
(* a directory request is issued in this step *)
Issued == Len(search'.requests) > Len(search.requests)

(* every directory request issued carries the pair (t, h) *)
Carry(t, h) ==
    \A i \in 1..Len(search.requests) :
        search.requests[i].xstsToken = t /\ search.requests[i].userHash = h

(* C21: a gamertag resolution issues a directory request only after its    *)
(* call of ensureXSTSToken has returned without error, every directory     *)
(* request carries the user hash and the security token that call          *)
(* returned, and when the call fails the operation returns its error with  *)
(* no directory request issued.                                            *)
C21_EnsureFirst ==
    /\ [][Issued => /\ op = "search" /\ pc \in {"ensured", "searching"}
                    /\ ret.err = "nil" /\ ret' = ret
                    /\ Len(search'.requests) = Len(search.requests) + 1]_vars
    /\ []((op = "search" /\ pc \notin {"idle", "ensured", "searching"})
            => search.requests = <<>> /\ ret = NoRet)
    /\ [][(pc = "ensured" /\ pc' = "idle" /\ ret.err # "nil")
            => ret' = ret /\ search'.requests = <<>>]_vars
    /\ []((op = "search" /\ pc \in {"ensured", "searching", "idle"})
            => /\ Carry(ret.token, ret.userHash)
               /\ ret.err \notin {"nil", "search"} => search.requests = <<>>)

(* C21: a resolution of two gamertags whose ensureXSTSToken obtained the   *)
(* security token from the provider has sent its two directory requests    *)
C21_Witness ==
    /\ Done("search") /\ ret.err = "nil" /\ Len(calls) = 1
    /\ Len(search.requests) = 2 /\ Carry("XT1", ret.userHash)

-----------------------------------------------------------------------------
(* the calls of the operation that were answered by an error response      *)
(* carrying a numeric error code                                           *)
WithCode(kinds) ==
    { i \in 1..Len(calls) :
        calls[i].kind \in kinds /\ calls[i].res = "err" /\ calls[i].XErr # "0" }

(* the error of call c is the condition of its code: one condition each    *)
(* for no linked account, region and child account, one for the two        *)
(* underage codes, and for any other code the generic condition built from *)
(* the code and the provider's message                                     *)
MappedByCode(c) ==
    CASE c.XErr = XErrNoAccount -> c.Error = <<"no Xbox account found">>
      [] c.XErr = XErrRegion ->
            c.Error = <<"Xbox Live is not available in your country/region">>
      [] c.XErr \in {XErrAdult1, XErrAdult2} ->
            c.Error = <<"the account needs adult verification">>
      [] c.XErr = XErrChild -> c.Error = <<"the account is a child account">>
      [] OTHER -> /\ Len(c.Error) >= 2
                  /\ c.Error[1] \in {"Xbox error", "Xbox error code"}
                  /\ c.Error[2] = c.XErr
                  /\ c.Message # "" => c.Error = <<"Xbox error", c.XErr, c.Message>>

(* C22, as stated: an error response of a step-4 escalation call (the user *)
(* token exchange or the security token exchange) that carries a numeric   *)
(* error code is mapped by code: no linked account, region unavailable and *)
(* child account blocked each give their own condition, the two underage   *)
(* codes give one and the same condition, and every other non-zero code    *)
(* gives the generic condition built from the code and the message.        *)
C22_MappedAsStated ==
    \A i \in WithCode({"user", "xsts"}) : MappedByCode(calls[i])

(* C22, amended: an error response of the security token exchange of step  *)
(* 4 that carries a non-zero numeric error code is mapped by code as the   *)
(* claim says, the generic condition being built from the code alone when  *)
(* the provider sent no message; an error response of the user token       *)
(* exchange is not mapped: its error is built from the response as it      *)
(* came, whatever code it carries.                                         *)
C22_Mapped ==
    /\ \A i \in WithCode({"xsts"}) :
          /\ MappedByCode(calls[i])
          /\ (calls[i].XErr = XErrOther /\ calls[i].Message = "")
                => calls[i].Error = <<"Xbox error code", calls[i].XErr>>
    /\ \A i \in WithCode({"user"}) :
          calls[i].Error =
              <<"user token request failed", calls[i].XErr, calls[i].Message>>

(* C22: ensureXSTSToken has returned the error of a security token         *)
(* exchange refused with the second underage code, which is the condition  *)
(* of the first                                                            *)
C22_Witness ==
    /\ Done("ensure") /\ ret.err = "xsts" /\ ret.cause = Len(calls)
    /\ Last.kind = "xsts" /\ Last.XErr = XErrAdult2
    /\ Last.Error = formatXboxError([XErr |-> XErrAdult1, Message |-> ""])

-----------------------------------------------------------------------------
(* the call before the last one *)
Prev == calls[Len(calls) - 1]

(* the store, in memory and in its file, holds the user token of the       *)
(* response c with the expiry the provider gave it                         *)
HoldsUserToken(c) ==
    /\ T.UserToken = c.Token /\ T.UserTokenExpiry = c.NotAfter
    /\ cache.file.exists
    /\ cache.file.data.user_token = c.Token
    /\ cache.file.data.user_token_expiry = c.NotAfter

(* the last call but one is the user token exchange, and the store holds   *)
(* its token                                                               *)
UserTokenHeld ==
    Len(calls) >= 2 /\ Prev.kind = "user" /\ HoldsUserToken(Prev)

(* the security token, its expiry and the user hash that the store c      *)
(* reads, and those in its file                                            *)
SecurityPart(c) ==
    <<c.tokens.XSTSToken, c.tokens.XSTSTokenExpiry, c.tokens.UserHash>>

SecurityPartOnFile(c) ==
    <<c.file.data.xsts_token, c.file.data.xsts_token_expiry,
      c.file.data.user_hash>>

(* C23: in step 4 of ensureXSTSToken the security token exchange is issued *)
(* only after the user token has been persisted; if that exchange fails,   *)
(* the call returns its error, the store holds the newly obtained user     *)
(* token with the provider's expiry, and the stored security token and     *)
(* user hash are those of before the call: no step of the call other than  *)
(* an accepted security token exchange changes what the store reads, nor   *)
(* what its file holds when the file agreed with it.                       *)
C23_UserTokenFirst ==
    /\ [][(pc = "userToken" /\ pc' = "xsts")
            => /\ Last'.kind = "xsts" /\ Last'.res = "wait"
               /\ Prev'.kind = "user" /\ Prev'.saved = "ok"
               /\ Last'.arg = Prev'.Token
               /\ UserTokenHeld']_vars
    /\ [][(pc = "xsts" /\ Last'.res = "err")
            => /\ pc' = "idle" /\ ret'.err = "xsts" /\ ret'.token = ""
               /\ ret'.cause = Len(calls')
               /\ cache' = cache
               /\ UserTokenHeld']_vars
    /\ [][(op = "ensure" /\ pc # "idle"
              /\ ~(Last'.kind = "xsts" /\ Last'.res = "ok"))
            => /\ SecurityPart(cache') = SecurityPart(cache)
               /\ SecurityPartOnFile(cache) = SecurityPart(cache)
                    => SecurityPartOnFile(cache') = SecurityPart(cache)]_vars

(* C23: the security token exchange of step 4 was refused for the region,  *)
(* and the store holds the new user token beside the expired security      *)
(* token of an earlier call                                                *)
C23_Witness ==
    /\ Done("ensure") /\ ret.err = "xsts" /\ Last.XErr = XErrRegion
    /\ Len(calls) >= 2 /\ Prev.kind = "user" /\ HoldsUserToken(Prev)
    /\ T.XSTSToken = "XT1" /\ ~Security.ok

-----------------------------------------------------------------------------
(* the provider answers the refresh exchange in this step *)
RefreshAnswered == pc = "refresh" /\ Last'.kind = "refresh" /\ Last'.res # "wait"

(* the user token, the security token, their expiries and the user hash    *)
(* of the record t                                                         *)
EscalationPart(t) ==
    <<t.UserToken, t.UserTokenExpiry, t.XSTSToken, t.XSTSTokenExpiry,
      t.UserHash>>

(* C24: a successful refresh exchange, its writes to the store succeeding, *)
(* stores the new access token with expiry equal to the current time plus  *)
(* the declared lifetime, replaces the stored refresh token when the       *)
(* response carries a non-empty one and leaves it unchanged otherwise, in  *)
(* memory and in the file; it never changes the stored user token,         *)
(* security token or user hash; a failed refresh exchange changes nothing  *)
(* in the store.                                                           *)
C24_Refresh ==
    [][RefreshAnswered =>
        /\ (Last'.res = "ok" /\ Last'.saved = "ok")
             => /\ T'.AccessToken = Last'.Token
                /\ T'.AccessTokenExpiry = now + Last'.ExpiresIn
                /\ T'.RefreshToken = IF Last'.RefreshToken # ""
                                     THEN Last'.RefreshToken
                                     ELSE T.RefreshToken
                /\ cache'.file = [exists |-> TRUE, data |-> Marshal(T')]
        /\ EscalationPart(T') = EscalationPart(T)
        /\ Last'.res = "err" => cache' = cache
      ]_vars

(* C24: a refresh exchange has replaced the stored refresh token by the    *)
(* rotated one, beside a user token that it left in place                  *)
C24_Witness ==
    /\ op = "ensure" /\ pc = "refreshed" /\ Last.kind = "refresh"
    /\ Last.arg = "RT0" /\ Last.RefreshToken = "RT1" /\ Last.saved = "ok"
    /\ T.RefreshToken = "RT1" /\ T.UserToken # ""

(* C24: ... and another has kept the stored refresh token, the response    *)
(* carrying none                                                           *)
C24_WitnessKept ==
    /\ op = "ensure" /\ pc = "refreshed" /\ Last.kind = "refresh"
    /\ Last.RefreshToken = "" /\ Last.saved = "ok" /\ T.RefreshToken = "RT0"

-----------------------------------------------------------------------------
(* this step is a step of Authenticate *)
AuthStep == (pc = "idle" /\ op' = "auth") \/ (op = "auth" /\ pc # "idle")

(* the token endpoint has granted the token: the flow is in Succeeded *)
TokenGranted == Last.kind = "token" /\ Last.res = "ok"

(* C25: Authenticate modifies the store only when the flow reaches         *)
(* Succeeded: no step of it but the one that receives the token changes    *)
(* any field of the store, in memory or in the file, so that when the      *)
(* device code request fails, or the flow ends in Expired, Failed or       *)
(* Canceled, the store is as it was before the call; and no poll attempt   *)
(* is issued when the device code request failed.                          *)
C25_OnlyOnSuccess ==
    /\ [][(AuthStep /\ ~(pc = "tryToken" /\ TokenGranted'))
            => cache' = cache]_vars
    /\ []((Done("auth")
             /\ ret.err \in {"deviceCode", "expired", "failed", "canceled"})
            => ~TokenGranted)
    /\ []((op = "auth" /\ Len(calls) >= 1 /\ calls[1].res = "err")
            => Len(calls) = 1 /\ Done("auth") /\ ret.err = "deviceCode")

(* C25: Authenticate has ended in Expired after a poll attempt, on a store *)
(* that holds the tokens of an earlier Authenticate                        *)
C25_Witness ==
    /\ Done("auth") /\ ret.err = "expired" /\ Attempts >= 1
    /\ T.AccessToken # "" /\ cache.file.exists

-----------------------------------------------------------------------------
(* ensureXSTSToken has returned a security token whose expiry is in the    *)
(* future                                                                  *)
ReturnedFresh ==
    Done("ensure") /\ ret.err = "nil" /\ now < T.XSTSTokenExpiry

(* the store holds the pair that ensureXSTSToken returned *)
HoldsReturned == T.XSTSToken = ret.token /\ T.UserHash = ret.userHash

(* the call of ensureXSTSToken made in this step issues no network call    *)
(* and returns what the call before it returned                            *)
SameAgain == pc' = "idle" /\ calls' = <<>> /\ ret' = ret

(* C26, as stated: after ensureXSTSToken has returned a security token     *)
(* whose expiry is in the future, the store's security token and user hash *)
(* equal the returned pair, and an immediately following ensureXSTSToken   *)
(* issues no network call and returns the same pair, for every successful  *)
(* security token response, one without user hash included.                *)
C26_CachedAsStated ==
    /\ [](ReturnedFresh => HoldsReturned)
    /\ [][(ReturnedFresh /\ EnsureXSTSToken) => SameAgain]_vars

(* C26, amended: ... the store's security token and user hash equal the    *)
(* returned pair, for every successful security token response; and an     *)
(* immediately following ensureXSTSToken issues no network call and        *)
(* returns the same pair when the returned user hash is not empty.  When   *)
(* it is empty, the following call does not return the stored token: it    *)
(* issues a network call or fails as not authenticated.                    *)
C26_Cached ==
    /\ [](ReturnedFresh => HoldsReturned)
    /\ [][(ReturnedFresh /\ EnsureXSTSToken)
            => IF ret.userHash # "" THEN SameAgain
               ELSE calls' # <<>> \/ ret'.err = "notAuthenticated"]_vars

(* C26: a second ensureXSTSToken has returned, without a network call, the *)
(* security token that the provider gave to the first                      *)
C26_Witness ==
    /\ ReturnedFresh /\ HoldsReturned /\ calls = <<>>
    /\ ret.userHash # "" /\ T.XSTSTokenExpiry > MaxTime - 2

-----------------------------------------------------------------------------
(* the sequences of network calls that the claim allows to one call of     *)
(* ensureXSTSToken, and their beginnings                                   *)
Chains ==
    { <<>>, <<"xsts">>, <<"xsts", "refresh">>, <<"xsts", "user">>,
      <<"xsts", "refresh", "user">>, <<"xsts", "user", "xsts">>,
      <<"xsts", "refresh", "user", "xsts">>,
      <<"refresh">>, <<"refresh", "user">>, <<"refresh", "user", "xsts">>,
      <<"user">>, <<"user", "xsts">> }

(* how far ensureXSTSToken has come *)
Rank(p) ==
    CASE p = "xstsCached" -> 1 [] p = "refresh" -> 2 [] p = "refreshed" -> 3
      [] p = "userToken" -> 4 [] p = "xsts" -> 5 [] OTHER -> 6

(* calls i and j are exchanges of the same kind with the same input token, *)
(* and the first was refused                                               *)
Repeats(i, j) ==
    /\ i < j /\ calls[i].res = "err"
    /\ calls[i].kind = calls[j].kind /\ calls[i].arg = calls[j].arg

(* the bound on the calls of one ensureXSTSToken: at most four, in the     *)
(* order of the chain, a first security token exchange being followed by   *)
(* others only when it was refused; and every step of the call either ends *)
(* it or moves it forward                                                  *)
Bounded ==
    /\ [](op = "ensure"
            => /\ Kinds \in Chains
               /\ \A i \in 1..Len(calls) - 1 : calls[i].res # "wait"
               /\ (Len(calls) >= 2 /\ calls[1].kind = "xsts")
                    => calls[1].res = "err")
    /\ [][(op = "ensure" /\ pc # "idle" /\ pc' # pc) => Rank(pc') > Rank(pc)]_vars

(* C27, as stated: from any store and for any provider behaviour, one call *)
(* of ensureXSTSToken ends after at most four network calls (at most one   *)
(* refused security token exchange from a cached user token, one refresh,  *)
(* one user token exchange, one further security token exchange) and never *)
(* repeats a refused exchange of the same kind with the same input token.  *)
C27_BoundedAsStated ==
    /\ Bounded
    /\ [](op = "ensure"
            => \A i, j \in 1..Len(calls) : ~Repeats(i, j))

(* C27, amended: ... and repeats a refused exchange of the same kind with  *)
(* the same input token only when the user token exchange hands out again  *)
(* the cached user token whose exchange was refused: the repeated call is  *)
(* then the security token exchange of step 4.                             *)
C27_Bounded ==
    /\ Bounded
    /\ [](op = "ensure"
            => \A i, j \in 1..Len(calls) :
                 Repeats(i, j)
                   => /\ i = 1 /\ j = Len(calls) /\ calls[j].kind = "xsts"
                      /\ calls[j - 1].kind = "user"
                      /\ calls[j - 1].Token = calls[i].arg)

(* C27: ensureXSTSToken has returned a security token after four network   *)
(* calls                                                                   *)
C27_Witness ==
    /\ Done("ensure") /\ ret.err = "nil" /\ Len(calls) = 4
    /\ Kinds = <<"xsts", "refresh", "user", "xsts">>

-----------------------------------------------------------------------------
(* the step is a set* method or Clear of the store that returns a storage  *)
(* error                                                                   *)
FailedWrite ==
    /\ pc = "idle" /\ pc' = "idle" /\ now' = now
    /\ op' \in SetOps \cup {"clear"}
    /\ ret'.err = "storage"

(* the in-memory record and the file of the store agree *)
InAgreement ==
    IF cache.file.exists THEN Durable(cache.file, T) ELSE T = EmptyTokens

(* C28: if a set* method or Clear of the file store fails with a storage   *)
(* error, every get* method returns the same result as just before the     *)
(* failed call, and the in-memory record and the file, when they agreed    *)
(* before the call, still agree.                                           *)
C28_Unchanged ==
    [][FailedWrite => (SameResults /\ (InAgreement => InAgreement'))]_vars

=============================================================================
